---- MODULE Spec2Model ----
(***************************************************************************)
(* Fitness Studio Booking API (src/fitnessApi.py).                         *)
(*                                                                         *)
(* The store is the two module-level lists `classes` and `bookings`.       *)
(* Three handlers act on it: get_classes, book_class and get_bookings.     *)
(* Spec      : the handlers run one at a time (each handler is one step).  *)
(* SpecConc  : book_class runs on worker threads, one source statement     *)
(*             per step, with no lock (the source has none).               *)
(* booking_time (datetime.now) is not modelled: no property reads it.      *)
(***************************************************************************)
EXTENDS Integers, Sequences, FiniteSets, TLC

VARIABLES classes, bookings, resp, pc, local, started

vars == <<classes, bookings, resp, pc, local, started>>

(***************************************************************************)
(* Bounds.  The source seeds capacities 10, 12 and 15; the model keeps the *)
(* three seeded classes and scales their capacities so that every class    *)
(* can be filled and then refused, and so that one class has room for a    *)
(* second booking (the duplicate check is reached only with a slot left).  *)
(***************************************************************************)
CapYoga == 2
CapZumba == 1
CapHIIT == 1
MaxRequests == 2

None == "None"

\* The clients that send requests: (client_name, client_email) as they leave
\* the BookingRequest validation.  The two emails differ only in letter case,
\* and one email is used under two names.
Clients ==
  { [client_name |-> "Al", client_email |-> "a@x.com"],
    [client_name |-> "Ann", client_email |-> "A@x.com"],
    [client_name |-> "Alan", client_email |-> "a@x.com"] }
Emails == {c.client_email : c \in Clients}
\* the email filters of GET /bookings: absent, a client's, or nobody's
EmailFilters == Emails \cup {"b@x.com", None}
RequestClassIds == {1, 2, 3, 999}
Threads == {"t1", "t2"}

(***************************************************************************)
(* Timezones: pytz.timezone(name) succeeds for names in the database and   *)
(* raises for any other name.  utcoffset is in minutes on 2025-08-22.      *)
(***************************************************************************)
TzDatabase ==
  [name \in {"Asia/Kolkata", "UTC", "America/New_York"} |->
     CASE name = "Asia/Kolkata" -> [abbr |-> "IST", utcoffset |-> 330]
       [] name = "UTC" -> [abbr |-> "UTC", utcoffset |-> 0]
       [] name = "America/New_York" -> [abbr |-> "EDT", utcoffset |-> -240]]

TimezoneInputs == {"Asia/Kolkata", "UTC", "America/New_York", "Mars/Olympus"}

IsKnownTimezone(tz) == tz \in DOMAIN TzDatabase

IST == TzDatabase["Asia/Kolkata"]

\* IST.localize(datetime(2025, 8, 22, h, m)): an aware datetime, kept as
\* the wall clock of its zone together with the zone.
Localize(zone, day, h, m) ==
  [day |-> day, hour |-> h, minute |-> m, tz |-> zone]

\* minutes since 2025-08-01 00:00 UTC of an aware datetime
UtcMinutes(dt) ==
  ((dt.day - 1) * 1440 + dt.hour * 60 + dt.minute) - dt.tz.utcoffset

\* variant of the conversion: keeps the wall clock and swaps the zone, as
\* datetime.replace(tzinfo=target) would
AsTimezone_Replace(dt, target) == [dt EXCEPT !.tz = target]

\* datetime.astimezone(target): same instant, wall clock of the target zone
AsTimezone(dt, target) ==
  LET loc == UtcMinutes(dt) + target.utcoffset IN
  [day |-> (loc \div 1440) + 1, hour |-> (loc % 1440) \div 60,
   minute |-> loc % 60, tz |-> target]

\* strftime("%Y-%m-%d %H:%M:%S %Z%z"), field by field
Strftime(dt) ==
  LET off == dt.tz.utcoffset
      mag == IF off < 0 THEN -off ELSE off IN
  [Y |-> 2025, m |-> 8, d |-> dt.day, H |-> dt.hour, M |-> dt.minute, S |-> 0,
   Z |-> dt.tz.abbr,
   z |-> [sign |-> IF off < 0 THEN "-" ELSE "+", hh |-> mag \div 60, mm |-> mag % 60]]

(***************************************************************************)
(* The seeded store.                                                       *)
(***************************************************************************)
SeedClasses ==
  << [id |-> 1, name |-> "Yoga", instructor |-> "Alice",
      schedule |-> Localize(IST, 22, 8, 0),
      capacity |-> CapYoga, available_slots |-> CapYoga],
     [id |-> 2, name |-> "Zumba", instructor |-> "Bob",
      schedule |-> Localize(IST, 22, 10, 0),
      capacity |-> CapZumba, available_slots |-> CapZumba],
     [id |-> 3, name |-> "HIIT", instructor |-> "Charlie",
      schedule |-> Localize(IST, 22, 18, 0),
      capacity |-> CapHIIT, available_slots |-> CapHIIT] >>

BookingRequests ==
  { [class_id |-> id, client_name |-> c.client_name, client_email |-> c.client_email] :
      id \in RequestClassIds, c \in Clients }

NoResp == [op |-> "none", status |-> 0, detail |-> "", request |-> <<>>, body |-> <<>>]

Idle == [request |-> <<>>, fitness_class |-> 0, booking_id |-> 0,
         new_booking |-> <<>>, slots |-> 0, status |-> 0, detail |-> ""]

Init ==
  /\ classes = SeedClasses
  /\ bookings = <<>>
  /\ resp = NoResp
  /\ pc = [t \in Threads |-> "idle"]
  /\ local = [t \in Threads |-> Idle]
  /\ started = 0

(***************************************************************************)
(* Helpers of book_class.                                                  *)
(***************************************************************************)
\* next((c for c in classes if c.id == request.class_id), None):
\* the index of the first class with that id, 0 for None
FindClass(cs, class_id) ==
  IF \E i \in 1..Len(cs) : cs[i].id = class_id
  THEN CHOOSE i \in 1..Len(cs) :
         /\ cs[i].id = class_id
         /\ \A j \in 1..(i - 1) : cs[j].id # class_id
  ELSE 0

\* variants of the capacity check: refuses only below 0; refuses the last slot
NoSlots_BelowZero(c) == c.available_slots < 0

NoSlots_LastSlot(c) == c.available_slots <= 1

\* fitness_class.available_slots <= 0
NoSlots(c) == c.available_slots <= 0

\* variant of the duplicate check: compares the booking's id, not its class_id
AlreadyBooked_ById(bs, request) ==
  \E i \in 1..Len(bs) :
    bs[i].client_email = request.client_email /\ bs[i].id = request.class_id

\* variant of the duplicate check: any booking of the email, whatever its class
AlreadyBooked_AnyClass(bs, request) ==
  \E i \in 1..Len(bs) : bs[i].client_email = request.client_email

\* any(b.client_email == request.client_email and b.class_id == request.class_id ...)
AlreadyBooked(bs, request) ==
  \E i \in 1..Len(bs) :
    bs[i].client_email = request.client_email /\ bs[i].class_id = request.class_id

\* variant of the id: the count of bookings, without the + 1
NextBookingId_Count(bs) == Len(bs)

\* booking_id = len(bookings) + 1
NextBookingId(bs) == Len(bs) + 1

\* variant of the constructor: the class's name is stored as the client's name
NewBooking_ClassNameAsClient(booking_id, c, request) ==
  [id |-> booking_id, class_id |-> c.id, class_name |-> c.name,
   client_name |-> c.name, client_email |-> request.client_email]

\* Booking(id=..., class_id=fitness_class.id, class_name=fitness_class.name, ...)
NewBooking(booking_id, c, request) ==
  [id |-> booking_id, class_id |-> c.id, class_name |-> c.name,
   client_name |-> request.client_name, client_email |-> request.client_email]

\* variant of the decrement: takes a slot from every class
TakeSlot_Every(cs, i) == [j \in 1..Len(cs) |-> [cs[j] EXCEPT !.available_slots = @ - 1]]

\* variants of the decrement: takes two slots; gives a slot back
TakeSlot_Two(cs, i) == [cs EXCEPT ![i].available_slots = @ - 2]

TakeSlot_Add(cs, i) == [cs EXCEPT ![i].available_slots = @ + 1]

\* fitness_class.available_slots -= 1
TakeSlot(cs, i) == [cs EXCEPT ![i].available_slots = @ - 1]

HttpError(op, request, status, detail) ==
  [op |-> op, status |-> status, detail |-> detail, request |-> request, body |-> <<>>]

HttpOk(op, request, body) ==
  [op |-> op, status |-> 200, detail |-> "", request |-> request, body |-> body]

\* variant of book_class: the duplicate check runs before the capacity check
book_class_DuplicateFirst ==
  \E request \in BookingRequests :
    LET i == FindClass(classes, request.class_id) IN
    IF i = 0 THEN
      /\ resp' = HttpError("book", request, 404, "Class not found")
      /\ UNCHANGED <<classes, bookings>>
    ELSE IF AlreadyBooked(bookings, request) THEN
      /\ resp' = HttpError("book", request, 400, "Already booked for this class")
      /\ UNCHANGED <<classes, bookings>>
    ELSE IF NoSlots(classes[i]) THEN
      /\ resp' = HttpError("book", request, 400, "No slots available")
      /\ UNCHANGED <<classes, bookings>>
    ELSE
      LET new_booking == NewBooking(NextBookingId(bookings), classes[i], request) IN
      /\ bookings' = Append(bookings, new_booking)
      /\ classes' = TakeSlot(classes, i)
      /\ resp' = HttpOk("book", request, new_booking)

\* variant of book_class: the slot is taken before the duplicate check
book_class_SlotBeforeDuplicate ==
  \E request \in BookingRequests :
    LET i == FindClass(classes, request.class_id) IN
    IF i = 0 THEN
      /\ resp' = HttpError("book", request, 404, "Class not found")
      /\ UNCHANGED <<classes, bookings>>
    ELSE IF NoSlots(classes[i]) THEN
      /\ resp' = HttpError("book", request, 400, "No slots available")
      /\ UNCHANGED <<classes, bookings>>
    ELSE IF AlreadyBooked(bookings, request) THEN
      /\ resp' = HttpError("book", request, 400, "Already booked for this class")
      /\ classes' = TakeSlot(classes, i)
      /\ UNCHANGED bookings
    ELSE
      LET new_booking == NewBooking(NextBookingId(bookings), classes[i], request) IN
      /\ bookings' = Append(bookings, new_booking)
      /\ classes' = TakeSlot(classes, i)
      /\ resp' = HttpOk("book", request, new_booking)

\* variant of book_class: the new booking is inserted at the head of the list
book_class_InsertFirst ==
  \E request \in BookingRequests :
    LET i == FindClass(classes, request.class_id) IN
    IF i = 0 THEN
      /\ resp' = HttpError("book", request, 404, "Class not found")
      /\ UNCHANGED <<classes, bookings>>
    ELSE IF NoSlots(classes[i]) THEN
      /\ resp' = HttpError("book", request, 400, "No slots available")
      /\ UNCHANGED <<classes, bookings>>
    ELSE IF AlreadyBooked(bookings, request) THEN
      /\ resp' = HttpError("book", request, 400, "Already booked for this class")
      /\ UNCHANGED <<classes, bookings>>
    ELSE
      LET new_booking == NewBooking(NextBookingId(bookings), classes[i], request) IN
      /\ bookings' = <<new_booking>> \o bookings
      /\ classes' = TakeSlot(classes, i)
      /\ resp' = HttpOk("book", request, new_booking)

(***************************************************************************)
(* POST /book, run as one step.                                            *)
(***************************************************************************)
book_class ==
  \E request \in BookingRequests :
    LET i == FindClass(classes, request.class_id) IN
    IF i = 0 THEN
      /\ resp' = HttpError("book", request, 404, "Class not found")
      /\ UNCHANGED <<classes, bookings>>
    ELSE IF NoSlots(classes[i]) THEN
      /\ resp' = HttpError("book", request, 400, "No slots available")
      /\ UNCHANGED <<classes, bookings>>
    ELSE IF AlreadyBooked(bookings, request) THEN
      /\ resp' = HttpError("book", request, 400, "Already booked for this class")
      /\ UNCHANGED <<classes, bookings>>
    ELSE
      LET new_booking == NewBooking(NextBookingId(bookings), classes[i], request) IN
      /\ bookings' = Append(bookings, new_booking)
      /\ classes' = TakeSlot(classes, i)
      /\ resp' = HttpOk("book", request, new_booking)

BookClass == book_class /\ UNCHANGED <<pc, local, started>>

(***************************************************************************)
(* GET /classes                                                            *)
(***************************************************************************)
\* variant of the view: reports the capacity as the available slots
ClassView_SlotsFromCapacity(c, target_tz) ==
  [id |-> c.id, name |-> c.name, instructor |-> c.instructor,
   schedule |-> Strftime(AsTimezone(c.schedule, target_tz)),
   capacity |-> c.capacity, available_slots |-> c.capacity]

ClassView(c, target_tz) ==
  [id |-> c.id, name |-> c.name, instructor |-> c.instructor,
   schedule |-> Strftime(AsTimezone(c.schedule, target_tz)),
   capacity |-> c.capacity, available_slots |-> c.available_slots]

ClassViews(cs, target_tz) == [i \in 1..Len(cs) |-> ClassView(cs[i], target_tz)]

\* variant of get_classes: no try/except around pytz.timezone, so the lookup
\* error reaches the global exception handler
get_classes_NoTry ==
  \E timezone \in TimezoneInputs :
    /\ resp' = IF IsKnownTimezone(timezone)
               THEN HttpOk("classes", [timezone |-> timezone],
                           ClassViews(classes, TzDatabase[timezone]))
               ELSE HttpError("classes", [timezone |-> timezone], 500,
                              "Internal server error. Please try again later.")
    /\ UNCHANGED <<classes, bookings>>

get_classes ==
  \E timezone \in TimezoneInputs :
    /\ resp' = IF IsKnownTimezone(timezone)
               THEN HttpOk("classes", [timezone |-> timezone],
                           ClassViews(classes, TzDatabase[timezone]))
               ELSE HttpError("classes", [timezone |-> timezone], 400, "Invalid timezone")
    /\ UNCHANGED <<classes, bookings>>

GetClasses == get_classes /\ UNCHANGED <<pc, local, started>>

(***************************************************************************)
(* GET /bookings                                                           *)
(***************************************************************************)
RECURSIVE FilterByEmail(_, _)
\* [b for b in bookings if b.client_email == email]
FilterByEmail(bs, email) ==
  IF bs = <<>> THEN <<>>
  ELSE LET rest == FilterByEmail(Tail(bs), email) IN
       IF Head(bs).client_email = email THEN <<Head(bs)>> \o rest ELSE rest

Lower(email) == IF email = "A@x.com" THEN "a@x.com" ELSE email

RECURSIVE FilterByEmailIgnoreCase(_, _)
FilterByEmailIgnoreCase(bs, email) ==
  IF bs = <<>> THEN <<>>
  ELSE LET rest == FilterByEmailIgnoreCase(Tail(bs), email) IN
       IF Lower(Head(bs).client_email) = Lower(email) THEN <<Head(bs)>> \o rest ELSE rest

\* variant of the filter: compares the emails without regard to case
BookingsFor_IgnoreCase(bs, email) ==
  IF email = None THEN bs ELSE FilterByEmailIgnoreCase(bs, email)

\* bookings if not email else [...]
BookingsFor(bs, email) == IF email = None THEN bs ELSE FilterByEmail(bs, email)

get_bookings ==
  \E email \in EmailFilters :
    /\ resp' = HttpOk("bookings", [email |-> email], BookingsFor(bookings, email))
    /\ UNCHANGED <<classes, bookings>>

GetBookings == get_bookings /\ UNCHANGED <<pc, local, started>>

Next == BookClass \/ GetClasses \/ GetBookings

Spec == Init /\ [][Next]_vars

(***************************************************************************)
(* POST /book on worker threads.  The handler is a plain `def`, which the  *)
(* framework runs on a thread pool; the source takes no lock, so a thread  *)
(* switch can fall between any two statements of book_class, and between   *)
(* the read and the write of `available_slots -= 1`.                       *)
(***************************************************************************)
Start(t) ==
  /\ pc[t] = "idle"
  /\ started < MaxRequests
  /\ \E request \in BookingRequests :
       local' = [local EXCEPT ![t] = [Idle EXCEPT !.request = request]]
  /\ started' = started + 1
  /\ pc' = [pc EXCEPT ![t] = "lookup"]
  /\ UNCHANGED <<classes, bookings, resp>>

\* lines 110-112
Lookup(t) ==
  /\ pc[t] = "lookup"
  /\ LET i == FindClass(classes, local[t].request.class_id) IN
     IF i = 0
     THEN /\ local' = [local EXCEPT ![t].status = 404, ![t].detail = "Class not found"]
          /\ pc' = [pc EXCEPT ![t] = "return"]
     ELSE /\ local' = [local EXCEPT ![t].fitness_class = i]
          /\ pc' = [pc EXCEPT ![t] = "check_slots"]
  /\ UNCHANGED <<classes, bookings, resp, started>>

\* lines 114-115
CheckSlots(t) ==
  /\ pc[t] = "check_slots"
  /\ IF NoSlots(classes[local[t].fitness_class])
     THEN /\ local' = [local EXCEPT ![t].status = 400, ![t].detail = "No slots available"]
          /\ pc' = [pc EXCEPT ![t] = "return"]
     ELSE /\ pc' = [pc EXCEPT ![t] = "check_duplicate"]
          /\ UNCHANGED local
  /\ UNCHANGED <<classes, bookings, resp, started>>

\* lines 117-119
CheckDuplicate(t) ==
  /\ pc[t] = "check_duplicate"
  /\ IF AlreadyBooked(bookings, local[t].request)
     THEN /\ local' = [local EXCEPT ![t].status = 400,
                                    ![t].detail = "Already booked for this class"]
          /\ pc' = [pc EXCEPT ![t] = "return"]
     ELSE /\ pc' = [pc EXCEPT ![t] = "make_booking"]
          /\ UNCHANGED local
  /\ UNCHANGED <<classes, bookings, resp, started>>

\* lines 121-129
MakeBooking(t) ==
  /\ pc[t] = "make_booking"
  /\ LET booking_id == NextBookingId(bookings) IN
     local' = [local EXCEPT
                 ![t].booking_id = booking_id,
                 ![t].new_booking = NewBooking(booking_id, classes[local[t].fitness_class],
                                               local[t].request)]
  /\ pc' = [pc EXCEPT ![t] = "append"]
  /\ UNCHANGED <<classes, bookings, resp, started>>

\* line 131
AppendBooking(t) ==
  /\ pc[t] = "append"
  /\ bookings' = Append(bookings, local[t].new_booking)
  /\ pc' = [pc EXCEPT ![t] = "read_slots"]
  /\ UNCHANGED <<classes, resp, local, started>>

\* line 132, the read of fitness_class.available_slots
ReadSlots(t) ==
  /\ pc[t] = "read_slots"
  /\ local' = [local EXCEPT ![t].slots = classes[local[t].fitness_class].available_slots]
  /\ pc' = [pc EXCEPT ![t] = "write_slots"]
  /\ UNCHANGED <<classes, bookings, resp, started>>

\* line 132, the write of fitness_class.available_slots
WriteSlots(t) ==
  /\ pc[t] = "write_slots"
  /\ classes' = [classes EXCEPT ![local[t].fitness_class].available_slots = local[t].slots - 1]
  /\ local' = [local EXCEPT ![t].status = 200]
  /\ pc' = [pc EXCEPT ![t] = "return"]
  /\ UNCHANGED <<bookings, resp, started>>

\* lines 112, 115, 119 (the raise) and 135 (the return)
Return(t) ==
  /\ pc[t] = "return"
  /\ resp' = IF local[t].status = 200
             THEN HttpOk("book", local[t].request, local[t].new_booking)
             ELSE HttpError("book", local[t].request, local[t].status, local[t].detail)
  /\ local' = [local EXCEPT ![t] = Idle]
  /\ pc' = [pc EXCEPT ![t] = "idle"]
  /\ UNCHANGED <<classes, bookings, started>>

NextConc ==
  \E t \in Threads :
    \/ Start(t) \/ Lookup(t) \/ CheckSlots(t) \/ CheckDuplicate(t) \/ MakeBooking(t)
    \/ AppendBooking(t) \/ ReadSlots(t) \/ WriteSlots(t) \/ Return(t)

SpecConc == Init /\ [][NextConc]_vars

(***************************************************************************)
(* Properties of the handlers run one at a time (Spec).  Every step of     *)
(* Spec is one handler call and leaves its request and its response in     *)
(* resp', so resp'.op names the handler that took the step.                *)
(***************************************************************************)
ClassIds == {classes[i].id : i \in 1..Len(classes)}

ClassIndex(id) == CHOOSE i \in 1..Len(classes) : classes[i].id = id

\* the number of Bookings in bs for the class class_id
BookedCount(bs, class_id) == Cardinality({i \in 1..Len(bs) : bs[i].class_id = class_id})

PairBooked(bs, class_id, email) ==
  \E i \in 1..Len(bs) : bs[i].class_id = class_id /\ bs[i].client_email = email

StoreUnchanged == classes' = classes /\ bookings' = bookings

\* C1: every class satisfies 0 <= available_slots <= capacity in every state
\* reachable by list-classes, create-booking and query-bookings calls.
C1_SlotsWithinCapacity ==
  \A i \in 1..Len(classes) :
    0 <= classes[i].available_slots /\ classes[i].available_slots <= classes[i].capacity

\* a full class has just refused a booking
C1_Witness ==
  /\ resp.op = "book" /\ resp.detail = "No slots available"
  /\ \E i \in 1..Len(classes) :
       classes[i].id = resp.request.class_id /\ classes[i].available_slots = 0

\* C2: the ledger holds at most one Booking for any (class_id, client_email).
C2_OneBookingPerPair ==
  \A i, j \in 1..Len(bookings) :
    (bookings[i].class_id = bookings[j].class_id
       /\ bookings[i].client_email = bookings[j].client_email) => i = j

\* a second booking of a booked pair has just been refused as a duplicate
C2_Witness ==
  /\ resp.op = "book" /\ resp.detail = "Already booked for this class"
  /\ PairBooked(bookings, resp.request.class_id, resp.request.client_email)

\* C3: the i-th booking of the ledger has id i, and a successful
\* create-booking returns the booking it appended, whose id is the length
\* of the ledger after the call (one more than the bookings already there).
C3_SequentialIds ==
  /\ \A i \in 1..Len(bookings) : bookings[i].id = i
  /\ (resp.op = "book" /\ resp.status = 200) =>
       /\ Len(bookings) >= 1
       /\ resp.body = bookings[Len(bookings)]
       /\ resp.body.id = Len(bookings)

C3_Witness ==
  /\ resp.op = "book" /\ resp.status = 200
  /\ Len(bookings) = 3 /\ resp.body.id = 3

\* C4: a successful create-booking takes exactly 1 from the available_slots
\* of the requested class, appends exactly the returned Booking to the end of
\* the ledger, and changes no other class and no earlier Booking.
C4_SuccessEffect ==
  [][(resp'.op = "book" /\ resp'.status = 200) =>
       /\ resp'.request.class_id \in ClassIds
       /\ bookings' = Append(bookings, resp'.body)
       /\ Len(classes') = Len(classes)
       /\ \A i \in 1..Len(classes) :
            IF classes[i].id = resp'.request.class_id
            THEN classes'[i] = [classes[i] EXCEPT !.available_slots = @ - 1]
            ELSE classes'[i] = classes[i]]_vars

\* a booking has succeeded on a store that already held bookings of other classes
C4_Witness ==
  /\ resp.op = "book" /\ resp.status = 200
  /\ Len(bookings) >= 2
  /\ bookings[1].class_id # resp.request.class_id

\* C5: the checks run in the order existence, capacity, duplicate and the
\* first failing one decides the error: unknown class -> 404 Class not found;
\* known class without slots -> 400 No slots available, also when the pair
\* is already booked; known class with slots and booked pair -> 400 Already
\* booked for this class.
C5_CheckOrder ==
  [][(resp'.op = "book") =>
       LET r == resp'.request IN
       IF r.class_id \notin ClassIds
       THEN resp'.status = 404 /\ resp'.detail = "Class not found"
       ELSE IF classes[ClassIndex(r.class_id)].available_slots <= 0
       THEN resp'.status = 400 /\ resp'.detail = "No slots available"
       ELSE PairBooked(bookings, r.class_id, r.client_email) =>
              (resp'.status = 400 /\ resp'.detail = "Already booked for this class")]_vars

\* a request for a full class by a client who holds a booking of it was
\* answered No slots available
C5_Witness ==
  /\ resp.op = "book" /\ resp.status = 400 /\ resp.detail = "No slots available"
  /\ PairBooked(bookings, resp.request.class_id, resp.request.client_email)

\* C6: a create-booking that fails (404 or 400) leaves the store unchanged.
C6_FailureLeavesStore ==
  [][(resp'.op = "book" /\ resp'.status # 200) =>
       (resp'.status \in {400, 404} /\ StoreUnchanged)]_vars

\* a request for an unknown class was refused on a store that holds bookings
C6_Witness ==
  /\ resp.op = "book" /\ resp.status = 404
  /\ Len(bookings) >= 1

\* C7: on a class of capacity N, a create-booking with an email not yet booked
\* on it succeeds while fewer than N bookings of the class exist, the N-th
\* leaves available_slots at 0, and once N exist it fails with No slots
\* available.
C7_FillThenRefuse ==
  [][(resp'.op = "book" /\ resp'.request.class_id \in ClassIds
        /\ ~PairBooked(bookings, resp'.request.class_id, resp'.request.client_email)) =>
       LET id == resp'.request.class_id
           i == ClassIndex(id) IN
       IF BookedCount(bookings, id) < classes[i].capacity
       THEN /\ resp'.status = 200
            /\ (BookedCount(bookings', id) = classes[i].capacity
                  => classes'[i].available_slots = 0)
       ELSE resp'.status = 400 /\ resp'.detail = "No slots available"]_vars

\* capacity-many bookings of a class exist, its slots are 0 and a new email
\* was refused
C7_Witness ==
  /\ resp.op = "book" /\ resp.detail = "No slots available"
  /\ ~PairBooked(bookings, resp.request.class_id, resp.request.client_email)
  /\ \E i \in 1..Len(classes) :
       /\ classes[i].id = resp.request.class_id
       /\ BookedCount(bookings, classes[i].id) = classes[i].capacity
       /\ classes[i].available_slots = 0

\* C8: query-bookings without a filter returns the whole ledger in order, with
\* a filter exactly the bookings whose client_email equals it, in order; it
\* answers 200 and changes neither the ledger nor a class.
C8_QueryBookings ==
  [][(resp'.op = "bookings") =>
       /\ resp'.status = 200
       /\ StoreUnchanged
       /\ LET email == resp'.request.email IN
          IF email = None
          THEN resp'.body = bookings
          ELSE resp'.body = SelectSeq(bookings, LAMBDA b : b.client_email = email)]_vars

\* a filtered query left out a booking whose email differs only in case
C8_Witness ==
  /\ resp.op = "bookings" /\ resp.request.email = "a@x.com"
  /\ Len(resp.body) = 1 /\ resp.body[1].client_email = "a@x.com"
  /\ \E i \in 1..Len(bookings) : bookings[i].client_email = "A@x.com"

\* C9: list-classes with an unrecognized timezone answers 400 Invalid
\* timezone; with any timezone it changes neither a class nor the ledger.
C9_ListClassesTimezone ==
  [][(resp'.op = "classes") =>
       /\ StoreUnchanged
       /\ (resp'.request.timezone \notin DOMAIN TzDatabase =>
             (resp'.status = 400 /\ resp'.detail = "Invalid timezone"))
       /\ (resp'.request.timezone \in DOMAIN TzDatabase => resp'.status = 200)]_vars

C9_Witness ==
  /\ resp.op = "classes" /\ resp.status = 400
  /\ resp.request.timezone = "Mars/Olympus"
  /\ Len(bookings) >= 1

(***************************************************************************)
(* Properties of book_class on worker threads (SpecConc).                  *)
(***************************************************************************)
\* C10: concurrent create-booking requests never jointly overbook a class:
\* available_slots never drops below 0 and the number of Bookings of a class
\* never exceeds its capacity.
C10_NoOverbooking ==
  \A i \in 1..Len(classes) :
    /\ classes[i].available_slots >= 0
    /\ BookedCount(bookings, classes[i].id) <= classes[i].capacity

\* C11: two concurrent create-booking requests with the same (class_id,
\* client_email) never both succeed: in every interleaving the ledger holds
\* at most one Booking of the pair.
C11_NoDuplicateConcurrent ==
  \A class_id \in ClassIds : \A email \in Emails :
    Cardinality({i \in 1..Len(bookings) :
                   bookings[i].class_id = class_id /\ bookings[i].client_email = email}) <= 1

(***************************************************************************)
(* Further properties of the handlers run one at a time (Spec).            *)
(***************************************************************************)
\* C12: a successful list-classes returns one view per class, in catalog
\* order, whose id, name, instructor, capacity and available_slots are the
\* store's current values; after k bookings of a class its view shows the
\* seeded available_slots less k.
C12_ListingShowsStore ==
  (resp.op = "classes" /\ resp.status = 200) =>
    /\ Len(resp.body) = Len(classes)
    /\ \A i \in 1..Len(classes) :
         /\ resp.body[i].id = classes[i].id
         /\ resp.body[i].name = classes[i].name
         /\ resp.body[i].instructor = classes[i].instructor
         /\ resp.body[i].capacity = classes[i].capacity
         /\ resp.body[i].available_slots = classes[i].available_slots
         /\ resp.body[i].available_slots =
              SeedClasses[i].available_slots - BookedCount(bookings, classes[i].id)

\* a listing issued after one booking of class 1 and one of class 3
C12_Witness ==
  /\ resp.op = "classes" /\ resp.status = 200
  /\ BookedCount(bookings, 1) = 1 /\ BookedCount(bookings, 3) = 1
  /\ resp.body[1].available_slots = SeedClasses[1].available_slots - 1
  /\ resp.body[2].available_slots = SeedClasses[2].available_slots

\* minutes since 2025-08-01 00:00 UTC that a rendered schedule denotes: its
\* wall clock less its printed offset
RenderedUtcMinutes(s) ==
  LET wall == (s.d - 1) * 1440 + s.H * 60 + s.M
      off == s.z.hh * 60 + s.z.mm IN
  IF s.z.sign = "-" THEN wall + off ELSE wall - off

\* minutes since 2025-08-01 00:00 UTC of a stored Asia/Kolkata schedule
StoredUtcMinutes(c) ==
  (c.schedule.day - 1) * 1440 + c.schedule.hour * 60 + c.schedule.minute - (5 * 60 + 30)

\* C13: for every valid target timezone each rendered schedule is a well-formed
\* wall clock that, less its rendered offset, is the stored instant in UTC; for
\* the target UTC the offset is +0000 and the wall clock is the stored
\* Asia/Kolkata wall clock less 5h30m.
C13_RenderedInstant ==
  (resp.op = "classes" /\ resp.status = 200) =>
    \A i \in 1..Len(classes) :
      LET s == resp.body[i].schedule IN
      /\ s.H \in 0..23 /\ s.M \in 0..59 /\ s.z.hh \in 0..23 /\ s.z.mm \in 0..59
      /\ RenderedUtcMinutes(s) = StoredUtcMinutes(classes[i])
      /\ resp.request.timezone = "UTC" =>
           /\ s.z = [sign |-> "+", hh |-> 0, mm |-> 0]
           /\ (s.d - 1) * 1440 + s.H * 60 + s.M = StoredUtcMinutes(classes[i])

\* the listing for UTC shows the 08:00 IST class at 02:30 +0000, the 18:00 one at 12:30
C13_Witness ==
  /\ resp.op = "classes" /\ resp.status = 200 /\ resp.request.timezone = "UTC"
  /\ resp.body[1].schedule.d = 22 /\ resp.body[1].schedule.H = 2
  /\ resp.body[1].schedule.M = 30 /\ resp.body[1].schedule.Z = "UTC"
  /\ resp.body[3].schedule.H = 12 /\ resp.body[3].schedule.M = 30

\* the listing for America/New_York shows the 08:00 IST class on the previous
\* day at 22:30 -0400
C13_WitnessWest ==
  /\ resp.op = "classes" /\ resp.request.timezone = "America/New_York"
  /\ resp.body[1].schedule.d = 21 /\ resp.body[1].schedule.H = 22
  /\ resp.body[1].schedule.M = 30
  /\ resp.body[1].schedule.z = [sign |-> "-", hh |-> 4, mm |-> 0]

\* C14: every Booking of the ledger carries the id and the name of one seeded
\* class, and the Booking a successful create-booking returns carries the
\* class_id, client_name and client_email of its request.
C14_BookingReferencesClass ==
  /\ \A i \in 1..Len(bookings) :
       \E j \in 1..Len(SeedClasses) :
         /\ bookings[i].class_id = SeedClasses[j].id
         /\ bookings[i].class_name = SeedClasses[j].name
  /\ (resp.op = "book" /\ resp.status = 200) =>
       /\ resp.body.class_id = resp.request.class_id
       /\ resp.body.client_name = resp.request.client_name
       /\ resp.body.client_email = resp.request.client_email

\* Alan has booked Zumba under an email that Al booked Yoga with
C14_Witness ==
  /\ resp.op = "book" /\ resp.status = 200
  /\ resp.request = [class_id |-> 2, client_name |-> "Alan", client_email |-> "a@x.com"]
  /\ resp.body.class_name = "Zumba" /\ resp.body.client_name = "Alan"
  /\ \E i \in 1..Len(bookings) :
       bookings[i].client_name = "Al" /\ bookings[i].class_name = "Yoga"

\* C15: the ledger is append-only: across every step the ledger before the
\* step is a prefix of the ledger after it, so no Booking is ever removed,
\* moved or changed.
C15_LedgerAppendOnly ==
  [][/\ Len(bookings') >= Len(bookings)
     /\ \A i \in 1..Len(bookings) : bookings'[i] = bookings[i]]_vars

\* the ledger has grown to the full capacity of the studio, booking by booking
C15_Witness ==
  /\ resp.op = "book" /\ resp.status = 200
  /\ Len(bookings) = CapYoga + CapZumba + CapHIIT

\* C16: create-booking succeeds exactly when the requested class exists, has
\* available_slots > 0 and no Booking of the same (class_id, client_email)
\* exists, whatever the other classes and the other bookings are.
C16_SuccessIffChecksPass ==
  [][(resp'.op = "book") =>
       LET r == resp'.request IN
       (resp'.status = 200) <=>
         /\ r.class_id \in ClassIds
         /\ classes[ClassIndex(r.class_id)].available_slots > 0
         /\ ~PairBooked(bookings, r.class_id, r.client_email)]_vars

\* a booking succeeded although its email holds a booking of another class and
\* another class is full
C16_Witness ==
  /\ resp.op = "book" /\ resp.status = 200
  /\ \E i \in 1..Len(bookings) :
       /\ bookings[i].client_email = resp.request.client_email
       /\ bookings[i].class_id # resp.request.class_id
  /\ \E j \in 1..Len(classes) :
       classes[j].id # resp.request.class_id /\ classes[j].available_slots = 0

\* C17: slot conservation: for every class, available_slots plus the number of
\* Bookings of the class in the ledger is the class's capacity.
C17_SlotConservation ==
  \A i \in 1..Len(classes) :
    classes[i].available_slots + BookedCount(bookings, classes[i].id) = classes[i].capacity

\* one class is half booked and another one is full
C17_Witness ==
  /\ \E i \in 1..Len(classes) :
       /\ BookedCount(bookings, classes[i].id) = 1
       /\ classes[i].available_slots = 1
  /\ \E j \in 1..Len(classes) :
       /\ BookedCount(bookings, classes[j].id) = classes[j].capacity
       /\ classes[j].available_slots = 0

\* C18: no step raises a class's available_slots; a class at 0 stays at 0, and
\* every create-booking for it from then on fails with No slots available.
C18_SlotsNeverIncrease ==
  [][\A i \in 1..Len(classes) :
       /\ classes'[i].available_slots <= classes[i].available_slots
       /\ classes[i].available_slots = 0 =>
            /\ classes'[i].available_slots = 0
            /\ (resp'.op = "book" /\ resp'.request.class_id = classes[i].id) =>
                 (resp'.status = 400 /\ resp'.detail = "No slots available")]_vars

\* a class that filled up earlier still refuses after a later booking of
\* another class
C18_Witness ==
  /\ resp.op = "book" /\ resp.detail = "No slots available"
  /\ Len(bookings) >= 2
  /\ bookings[Len(bookings)].class_id # resp.request.class_id
  /\ bookings[1].class_id = resp.request.class_id
  /\ \E i \in 1..Len(classes) :
       classes[i].id = resp.request.class_id /\ classes[i].available_slots = 0

(***************************************************************************)
(* Further properties of book_class on worker threads (SpecConc).          *)
(***************************************************************************)
\* C19: booking identifiers stay unique under concurrent requests: no two
\* Bookings of the ledger carry the same id.
C19_UniqueIdsConcurrent ==
  \A i, j \in 1..Len(bookings) : bookings[i].id = bookings[j].id => i = j

====
